---- MODULE Spec2Model ----
(***************************************************************************)
(* Model of the ontoweaver repository:                                     *)
(*   - src/preprocessing/preprocess_ontology.py : to_bc_ontology           *)
(*   - src/ontoweaver/transformer.py : split, cat_format, map, translate   *)
(* Python strings are sequences of one-character strings.                  *)
(***************************************************************************)
EXTENDS Integers, Sequences, FiniteSets, TLC

VARIABLES
    \* ---- preprocess_ontology.to_bc_ontology ----
    pc,                \* position in to_bc_ontology
    loaded,            \* the ontology as loaded (never modified; the input)
    onto,              \* the ontology in memory: class iri -> [label, is_a]
    thing_label,       \* owl.Thing.label
    todo,              \* classes that onto.classes() still has to deliver
    translation_dict,  \* class iri -> [labels, bc_label]
    aliased,           \* whether `c.label = []` re-initialises the list object
                       \* that `old_labels` refers to (decided by owlready2)
    mapping_file,      \* content of bc_classes_mapping.json
    saved              \* content of bc_<ontology_file>

ontoVars == <<pc, loaded, onto, thing_label, todo, translation_dict, aliased,
              mapping_file, saved>>

VARIABLES
    \* ---- transformer.py ----
    cls,               \* the transformer class whose __call__ runs
    columns,           \* self.columns (a list of column names; [] when undeclared)
    separator,         \* self.separator (split)
    format_string,     \* self.format_string (cat_format), when defined
    translations,      \* kwargs "translations": [given, map]
    translations_file, \* kwargs "translations_file" ("None" when not passed)
    translate_from,    \* kwargs "translate_from"    ("None" when not passed)
    translate_to,      \* kwargs "translate_to"      ("None" when not passed)
    df,                \* what pd.read_csv returns for the translations file
    row0,              \* the row as passed to __call__
    attrs,             \* names of the attributes defined on self
    translate,         \* self.translate, once constructed
    row,               \* the row (translate.__call__ modifies it in place)
    k,                 \* number of declared columns the running loop has handled
    out,               \* identifiers yielded so far
    raised,            \* the exception that ended the call, or "none"
    gpc,               \* position of the constructor / generator
    warnings           \* columns for which logging.warning was called

cfgVars == <<cls, columns, separator, format_string, translations, translations_file,
             translate_from, translate_to, df, row0>>
runVars == <<attrs, translate, row, k, out, raised, gpc, warnings>>
trVars == <<cfgVars, runVars>>

vars == <<ontoVars, trVars>>

-----------------------------------------------------------------------------
(* Bounds *)
MaxLabelLen == 2   \* longest label drawn over LabelChars
MaxClasses == 2    \* classes of an input ontology
MaxCellLen == 2    \* longest cell string drawn over its alphabet
MaxDfRows == 2     \* rows of a translations file

-----------------------------------------------------------------------------
(* Characters and strings *)

None == <<"None">>

lowers == <<"a", "b", "c", "l", "o", "s", "t", "x", "y">>
uppers == <<"A", "B", "C", "L", "O", "S", "T", "X", "Y">>

\* str.upper() on one character
upper(c) ==
    IF \E i \in 1..Len(lowers) : lowers[i] = c
    THEN uppers[CHOOSE i \in 1..Len(lowers) : lowers[i] = c]
    ELSE c

\* str.lower() on one character
lower(c) ==
    IF \E i \in 1..Len(uppers) : uppers[i] = c
    THEN lowers[CHOOSE i \in 1..Len(uppers) : uppers[i] = c]
    ELSE c

\* str.islower() on one character
islower(c) == \E i \in 1..Len(lowers) : lowers[i] = c

\* str.find(c) / str.rfind(c) for a one-character needle, 0-based, -1 if absent
find(s, c) ==
    IF \E i \in 1..Len(s) : s[i] = c
    THEN (CHOOSE i \in 1..Len(s) : s[i] = c /\ \A j \in 1..(i-1) : s[j] # c) - 1
    ELSE -1

rfind(s, c) ==
    IF \E i \in 1..Len(s) : s[i] = c
    THEN (CHOOSE i \in 1..Len(s) : s[i] = c /\ \A j \in (i+1)..Len(s) : s[j] # c) - 1
    ELSE -1

\* s[i:] with a 0-based i
From(s, i) == SubSeq(s, i + 1, Len(s))

\* s[:i] with a 0-based i
Upto(s, i) == SubSeq(s, 1, i)

SeqsUpTo(S, n) == UNION {[1..m -> S] : m \in 0..n}

-----------------------------------------------------------------------------
(* Each program runs alone: the variables of the other one stay idle *)

NoTable == [given |-> FALSE, map |-> <<>>]
NoDf == [headers |-> {}, rows |-> <<>>]

\* the ontology variables while a transformer runs
OntoIdle ==
    /\ pc = "idle"
    /\ loaded = <<>> /\ onto = <<>> /\ thing_label = <<>> /\ todo = <<>>
    /\ translation_dict = <<>> /\ aliased = FALSE
    /\ mapping_file = None /\ saved = None

\* the transformer variables while to_bc_ontology runs
TransformerIdle ==
    /\ cls = "none" /\ columns = <<>> /\ separator = <<>> /\ format_string = <<>>
    /\ translations = NoTable /\ translations_file = "None"
    /\ translate_from = "None" /\ translate_to = "None" /\ df = NoDf
    /\ row0 = <<>> /\ attrs = {} /\ translate = <<>> /\ row = <<>> /\ k = 0
    /\ out = <<>> /\ raised = "none" /\ gpc = "idle" /\ warnings = <<>>

-----------------------------------------------------------------------------
(* preprocess_ontology.py : helpers *)

chars_to_be_removed == <<" ", "%", "-">>
chars_to_be_replaced == <<"_">>

\* s.replace(c, "")
replace_by_empty(s, c) == SelectSeq(s, LAMBDA x : x # c)

RECURSIVE remove_characters(_, _)
remove_characters(s, list_c) ==
    IF list_c = <<>> THEN s
    ELSE remove_characters(replace_by_empty(s, Head(list_c)), Tail(list_c))

\* [err |-> TRUE] stands for the IndexError of s[p+1] past the end of s
RECURSIVE replace_underscore(_)
replace_underscore(s) ==
    LET p == find(s, "_") IN
    IF p < 0 THEN [err |-> FALSE, s |-> s]
    ELSE IF p + 1 >= Len(s) THEN [err |-> TRUE, s |-> s]
    ELSE LET c  == s[p + 2]
             s2 == Upto(s, p) \o <<upper(c)>>
             s3 == IF Len(s) >= p + 1 THEN s2 \o From(s, p + 2) ELSE s2
         IN  replace_underscore(s3)

get_label_from_iri(iri) ==
    IF rfind(iri, "#") > 0 THEN From(iri, rfind(iri, "#") + 1)
    ELSE IF rfind(iri, "/") > 0 THEN From(iri, rfind(iri, "/") + 1)
    ELSE iri

\* lines 85-91: the new label of a class, or the IndexError of
\* replace_underscore or of new_label[0]
new_label_of(label, iri) ==
    LET l0 == IF Len(label) > 0 THEN label[1] ELSE get_label_from_iri(iri)
        l1 == remove_characters(l0, chars_to_be_removed)
        l2 == replace_underscore(l1)
    IN  IF l2.err THEN l2
        ELSE IF l2.s = <<>> THEN [err |-> TRUE, s |-> l2.s]
        ELSE [err |-> FALSE, s |-> <<lower(l2.s[1])>> \o Tail(l2.s)]

-----------------------------------------------------------------------------
(* preprocess_ontology.py : the ontologies to_bc_ontology is run on *)

Thing == <<"T", "h", "i", "n", "g">>
BcRootClass == <<"B", "c", "R", "o", "o", "t", "C", "l", "a", "s", "s">>
BcRootIri == <<"o", "#">> \o BcRootClass

LabelChars == {"a", "B", "_", " "}

InputLabels ==
    SeqsUpTo(LabelChars, MaxLabelLen)
        \cup {<<"x", "-", "y">>, <<"%", "x">>, <<"x", "_", "y", "_">>}

\* label lists: none, one label, or two labels
InputLabelLists ==
    {<<>>} \cup {<<l>> : l \in InputLabels}
           \cup {<<l, <<"x">>>> : l \in InputLabels}

InputIris ==
    << <<"o", "#", "x", "_", "y">>,
       <<"o", "/", "a", " ", "B">>,
       <<"o", "#", "x", "_">>,
       <<"o", "/", "-">> >>

\* an ontology of n classes: class m has the m-th iri; its parent is Thing or
\* another class of the ontology
Ontologies(n) ==
    LET iris == {InputIris[m] : m \in 1..n}
    IN  {o \in [iris -> [label : InputLabelLists,
                         is_a : {<<Thing>>} \cup {<<i>> : i \in iris}]] :
            \A i \in iris : o[i].is_a # <<i>>}

\* the orders in which onto.classes() may deliver the classes
Orders(S) == {q \in [1..Cardinality(S) -> S] : \A i, j \in DOMAIN q : i # j => q[i] # q[j]}

-----------------------------------------------------------------------------
(* preprocess_ontology.py : to_bc_ontology *)

InitOnto ==
    /\ pc = "thing"
    /\ \E n \in 1..MaxClasses : loaded \in Ontologies(n)
    /\ onto = loaded
    /\ thing_label \in {<<>>, <<Thing>>}
    /\ todo \in Orders(DOMAIN loaded)
    /\ translation_dict = <<>>
    /\ aliased \in BOOLEAN
    /\ mapping_file = None
    /\ saved = None
    /\ TransformerIdle

\* lines 64-68
ThingLabel ==
    /\ pc = "thing"
    /\ thing_label' = IF thing_label = <<>> THEN <<Thing>> ELSE thing_label
    /\ pc' = "loop"
    /\ UNCHANGED <<loaded, onto, todo, translation_dict, aliased, mapping_file, saved>>
    /\ UNCHANGED trVars

\* lines 102-107 applied to the ontology o in which class c was relabelled
reparent(o, c) ==
    IF o[c].is_a = <<Thing>>
    THEN LET root == IF BcRootIri \in DOMAIN o
                     THEN [o[BcRootIri] EXCEPT !.label = Append(@, BcRootClass),
                                               !.is_a = <<Thing>>]
                     ELSE [label |-> <<BcRootClass>>, is_a |-> <<Thing>>]
         IN  [i \in DOMAIN o \cup {BcRootIri} |->
                 IF i = BcRootIri THEN root
                 ELSE IF i = c THEN [o[c] EXCEPT !.is_a = <<BcRootIri>>]
                 ELSE o[i]]
    ELSE o

\* the value that `old_labels` denotes when the dictionary entry is built
old_labels_at_store(old, new) == IF aliased THEN <<new>> ELSE old

\* lines 71-107, one iteration that raises no exception
ClassRelabel ==
    /\ pc = "loop"
    /\ todo # <<>>
    /\ LET c   == Head(todo)
           old == onto[c].label
           nl  == new_label_of(old, c)
       IN  /\ ~nl.err
           /\ translation_dict' =
                 [i \in DOMAIN translation_dict \cup {c} |->
                     IF i = c
                     THEN [labels |-> old_labels_at_store(old, nl.s), bc_label |-> nl.s]
                     ELSE translation_dict[i]]
           /\ onto' = reparent([onto EXCEPT ![c].label = <<nl.s>>], c)
    /\ todo' = Tail(todo)
    /\ UNCHANGED <<pc, loaded, thing_label, aliased, mapping_file, saved>>
    /\ UNCHANGED trVars

\* lines 71-91, an iteration that raises IndexError
ClassIndexError ==
    /\ pc = "loop"
    /\ todo # <<>>
    /\ new_label_of(onto[Head(todo)].label, Head(todo)).err
    /\ pc' = "IndexError"
    /\ UNCHANGED <<loaded, onto, thing_label, todo, translation_dict, aliased,
                   mapping_file, saved>>
    /\ UNCHANGED trVars

\* lines 110-111
WriteMapping ==
    /\ pc = "loop"
    /\ todo = <<>>
    /\ mapping_file' = translation_dict
    /\ pc' = "save"
    /\ UNCHANGED <<loaded, onto, thing_label, todo, translation_dict, aliased, saved>>
    /\ UNCHANGED trVars

\* line 113
Save ==
    /\ pc = "save"
    /\ saved' = onto
    /\ pc' = "done"
    /\ UNCHANGED <<loaded, onto, thing_label, todo, translation_dict, aliased,
                   mapping_file>>
    /\ UNCHANGED trVars

NextOnto == ThingLabel \/ ClassRelabel \/ ClassIndexError \/ WriteMapping \/ Save

SpecOnto == InitOnto /\ [][NextOnto]_vars

-----------------------------------------------------------------------------
(* Naming convention of the downstream graph database *)

Conforms(l) ==
    /\ l # <<>>
    /\ \A i \in 1..Len(l) : l[i] \notin {" ", "%", "-", "_"}
    /\ islower(l[1])

\* C1: once to_bc_ontology has completed, every class of the saved ontology,
\* BcRootClass included, carries exactly one label, and that label satisfies
\* the naming convention.
C1_SavedLabelsConform ==
    pc = "done" =>
        \A c \in DOMAIN saved :
            /\ Len(saved[c].label) = 1
            /\ Conforms(saved[c].label[1])

\* C2: the written mapping has exactly one entry per class of the input ontology,
\* whose "labels" are the labels the class had initially and whose "bc_label" is
\* the single label the class has in the output ontology.
C2_MappingRecordsInitialLabels ==
    pc = "done" =>
        /\ DOMAIN mapping_file = DOMAIN loaded
        /\ \A c \in DOMAIN loaded :
              /\ mapping_file[c].labels = loaded[c].label
              /\ saved[c].label = <<mapping_file[c].bc_label>>


-----------------------------------------------------------------------------
(* transformer.py : cells, rows and the configuration of a transformer *)


S(s) == [t |-> "str", s |-> s, n |-> 0]
I(n) == [t |-> "int", s |-> <<>>, n |-> n]
NaN  == [t |-> "float", s |-> <<>>, n |-> 0]

nan == <<"n", "a", "n">>

digit == <<"0", "1", "2", "3", "4", "5", "6", "7", "8", "9">>

RECURSIVE digits(_)
digits(n) == IF n < 10 THEN <<digit[n + 1]>> ELSE digits(n \div 10) \o <<digit[(n % 10) + 1]>>

\* str(cell)
py_str(c) ==
    CASE c.t = "str" -> c.s
      [] c.t = "int" -> digits(c.n)
      [] OTHER       -> nan

\* bool(cell): a float nan is true
py_bool(c) ==
    CASE c.t = "str" -> c.s # <<>>
      [] c.t = "int" -> c.n # 0
      [] OTHER       -> TRUE

\* base.Transformer.valid
valid(c) ==
    IF c.t \in {"int", "float"} THEN c.t # "float" ELSE py_str(c) # nan

Cols == {"c1", "c2"}

CellStrings == SeqsUpTo({"a", ","}, MaxCellLen) \cup {nan}
Cells == {S(s) : s \in CellStrings} \cup {I(1), I(10), NaN}

Rows == UNION {[D -> Cells] : D \in SUBSET Cols}
ColumnLists == {<<>>} \cup UNION {Orders(D) : D \in (SUBSET Cols) \ {{}}}

\* what every generator starts from
Fresh(r) ==
    /\ row0 = r /\ row = r /\ k = 0 /\ out = <<>> /\ raised = "none" /\ warnings = <<>>

Raise(e) == raised' = e /\ gpc' = "raised"

-----------------------------------------------------------------------------
(* transformer.py : split *)

\* str.find(sep) for a non-empty needle, 0-based, -1 if absent
find_sub(s, sep) ==
    LET at(i) == i + Len(sep) - 1 <= Len(s) /\ SubSeq(s, i, i + Len(sep) - 1) = sep
    IN  IF \E i \in 1..Len(s) : at(i)
        THEN (CHOOSE i \in 1..Len(s) : at(i) /\ \A j \in 1..(i-1) : ~at(j)) - 1
        ELSE -1

\* py_split that drops the empty pieces, as str.split() without a separator does
RECURSIVE py_split_drop_empty(_, _)
py_split_drop_empty(s, sep) ==
    LET p == find_sub(s, sep) IN
    IF p < 0 THEN (IF s = <<>> THEN <<>> ELSE <<s>>)
    ELSE (IF p = 0 THEN <<>> ELSE <<Upto(s, p)>>)
             \o py_split_drop_empty(From(s, p + Len(sep)), sep)

\* str.split(sep) for a non-empty sep
RECURSIVE py_split(_, _)
py_split(s, sep) ==
    LET p == find_sub(s, sep) IN
    IF p < 0 THEN <<s>>
    ELSE <<Upto(s, p)>> \o py_split(From(s, p + Len(sep)), sep)

Separators == {<<",">>, <<",", "a">>}

InitSplit ==
    /\ OntoIdle
    /\ cls = "split"
    /\ columns \in ColumnLists
    /\ separator \in Separators
    /\ format_string = <<>>
    /\ translations = NoTable /\ translations_file = "None"
    /\ translate_from = "None" /\ translate_to = "None" /\ df = NoDf
    /\ attrs = {"separator"} /\ translate = <<>>
    /\ \E r \in Rows : Fresh(r)
    /\ gpc = "split"

InSplit == gpc = "split" /\ k < Len(columns)

\* line 37: row[key] raises KeyError when the row has no such column
SplitKeyError ==
    /\ InSplit
    /\ columns[k + 1] \notin DOMAIN row
    /\ Raise("KeyError")
    /\ UNCHANGED <<ontoVars, cfgVars, attrs, translate, row, k, out, warnings>>

\* lines 37-41: a valid string cell
SplitCell ==
    /\ InSplit
    /\ columns[k + 1] \in DOMAIN row
    /\ valid(row[columns[k + 1]])
    /\ row[columns[k + 1]].t = "str"
    /\ out' = out \o py_split(py_str(row[columns[k + 1]]), separator)
    /\ k' = k + 1
    /\ UNCHANGED <<ontoVars, cfgVars, attrs, translate, row, raised, gpc, warnings>>

\* line 38: a valid cell that is not a string
SplitAssertionError ==
    /\ InSplit
    /\ columns[k + 1] \in DOMAIN row
    /\ valid(row[columns[k + 1]])
    /\ row[columns[k + 1]].t # "str"
    /\ Raise("AssertionError")
    /\ UNCHANGED <<ontoVars, cfgVars, attrs, translate, row, k, out, warnings>>

\* lines 42-43: an invalid cell
SplitInvalid ==
    /\ InSplit
    /\ columns[k + 1] \in DOMAIN row
    /\ ~valid(row[columns[k + 1]])
    /\ warnings' = Append(warnings, columns[k + 1])
    /\ k' = k + 1
    /\ UNCHANGED <<ontoVars, cfgVars, attrs, translate, row, out, raised, gpc>>

\* the for loop of line 36 is exhausted
SplitDone ==
    /\ gpc = "split"
    /\ k = Len(columns)
    /\ gpc' = "done"
    /\ UNCHANGED <<ontoVars, cfgVars, attrs, translate, row, k, out, raised, warnings>>

NextSplit == SplitKeyError \/ SplitCell \/ SplitAssertionError \/ SplitInvalid \/ SplitDone

SpecSplit == InitSplit /\ [][NextSplit]_vars


(* split : what the claim speaks of *)

\* number of non-overlapping occurrences of sep in s, as str.count(sep) counts
RECURSIVE py_count(_, _)
py_count(s, sep) ==
    LET p == find_sub(s, sep) IN
    IF p < 0 THEN 0 ELSE 1 + py_count(From(s, p + Len(sep)), sep)

\* sep.join(pieces)
RECURSIVE Join(_, _)
Join(pieces, sep) ==
    IF pieces = <<>> THEN <<>>
    ELSE IF Len(pieces) = 1 THEN pieces[1]
    ELSE pieces[1] \o sep \o Join(Tail(pieces), sep)

RECURSIVE SumSeq(_)
SumSeq(q) == IF q = <<>> THEN 0 ELSE Head(q) + SumSeq(Tail(q))

AllPresent == \A j \in 1..Len(columns) : columns[j] \in DOMAIN row0

\* the declared columns among the first j whose cell satisfies P, in declared order
ColumnsWhere(j, P(_)) ==
    SelectSeq(SubSeq(columns, 1, j), LAMBDA c : c \in DOMAIN row /\ P(row[c]))

IsValidStr(c) == valid(c) /\ c.t = "str"
IsInvalid(c) == ~valid(c)

\* C7 (as written): every declared column whose cell is valid is split and the
\* number of identifiers is the sum over the valid cells of (occurrences + 1)
C7_Original_EveryValidCellIsSplit ==
    (AllPresent /\ gpc \in {"done", "raised"}) =>
        /\ raised = "none"
        /\ Len(out) = SumSeq([j \in 1..Len(ColumnsWhere(Len(columns), valid)) |->
                                py_count(py_str(row[ColumnsWhere(Len(columns), valid)[j]]),
                                         separator) + 1])

\* C7 (amended): split handles the declared columns in order; a valid string cell
\* yields its pieces left to right, an invalid cell only logs a warning and the
\* loop goes on, a valid cell that is not a string raises AssertionError and a
\* declared column absent from the row raises KeyError; the identifiers yielded
\* are the pieces of the valid string cells handled so far, and their number is
\* the sum over these cells of (separator occurrences + 1).
C7_SplitYieldsPiecesOfValidStrings ==
    cls = "split" =>
        LET done  == ColumnsWhere(k, IsValidStr)
            cells == [j \in 1..Len(done) |-> py_str(row[done[j]])]
        IN  /\ Len(out) = SumSeq([j \in 1..Len(cells) |-> py_count(cells[j], separator) + 1])
            /\ cells # <<>> => Join(out, separator) = Join(cells, separator)
            /\ cells = <<>> => out = <<>>
            /\ \A j \in 1..Len(out) : find_sub(out[j], separator) < 0
            /\ warnings = ColumnsWhere(k, IsInvalid)
            /\ gpc = "done" =>
                  /\ raised = "none" /\ k = Len(columns)
                  /\ \A j \in 1..Len(columns) :
                        /\ columns[j] \in DOMAIN row
                        /\ valid(row[columns[j]]) => row[columns[j]].t = "str"
            /\ gpc = "raised" =>
                  /\ k < Len(columns)
                  /\ raised \in {"KeyError", "AssertionError"}
                  /\ raised = "KeyError" <=> columns[k + 1] \notin DOMAIN row
                  /\ raised = "AssertionError" =>
                        /\ valid(row[columns[k + 1]])
                        /\ row[columns[k + 1]].t # "str"

\* an invalid cell was skipped, and a later cell holding the separator was split
C7_Witness ==
    /\ cls = "split" /\ gpc = "done"
    /\ Len(columns) = 2
    /\ ~valid(row[columns[1]])
    /\ py_count(py_str(row[columns[2]]), separator) >= 1
    /\ Len(out) >= 2
    /\ warnings = <<columns[1]>>


-----------------------------------------------------------------------------
(* transformer.py : map (also the generator translate.__call__ delegates to) *)

InitMap ==
    /\ OntoIdle
    /\ cls = "map"
    /\ columns \in ColumnLists
    /\ separator = <<>> /\ format_string = <<>>
    /\ translations = NoTable /\ translations_file = "None"
    /\ translate_from = "None" /\ translate_to = "None" /\ df = NoDf
    /\ attrs = {} /\ translate = <<>>
    /\ \E r \in Rows : Fresh(r)
    /\ gpc = "map"

InMap == gpc = "map" /\ columns # <<>> /\ k < Len(columns)

\* lines 200-201
MapNoColumns ==
    /\ gpc = "map"
    /\ columns = <<>>
    /\ Raise("ValueError")
    /\ UNCHANGED <<ontoVars, cfgVars, attrs, translate, row, k, out, warnings>>

\* lines 204-207
MapKeyError ==
    /\ InMap
    /\ columns[k + 1] \notin DOMAIN row
    /\ Raise("KeyError")
    /\ UNCHANGED <<ontoVars, cfgVars, attrs, translate, row, k, out, warnings>>

\* MapYield without the test of line 208
MapYield_Unchecked ==
    /\ InMap
    /\ columns[k + 1] \in DOMAIN row
    /\ out' = Append(out, py_str(row[columns[k + 1]]))
    /\ k' = k + 1
    /\ UNCHANGED <<ontoVars, cfgVars, attrs, translate, row, raised, gpc, warnings>>

\* lines 208-209
MapYield ==
    /\ InMap
    /\ columns[k + 1] \in DOMAIN row
    /\ valid(row[columns[k + 1]])
    /\ out' = Append(out, py_str(row[columns[k + 1]]))
    /\ k' = k + 1
    /\ UNCHANGED <<ontoVars, cfgVars, attrs, translate, row, raised, gpc, warnings>>

\* lines 210-212
MapInvalid ==
    /\ InMap
    /\ columns[k + 1] \in DOMAIN row
    /\ ~valid(row[columns[k + 1]])
    /\ warnings' = Append(warnings, columns[k + 1])
    /\ k' = k + 1
    /\ UNCHANGED <<ontoVars, cfgVars, attrs, translate, row, out, raised, gpc>>

\* the for loop of line 203 is exhausted
MapDone ==
    /\ gpc = "map"
    /\ columns # <<>>
    /\ k = Len(columns)
    /\ gpc' = "done"
    /\ UNCHANGED <<ontoVars, cfgVars, attrs, translate, row, k, out, raised, warnings>>

NextMap == MapNoColumns \/ MapKeyError \/ MapYield \/ MapInvalid \/ MapDone

SpecMap == InitMap /\ [][NextMap]_vars

(* map : what the claim speaks of *)

FirstAbsent ==
    CHOOSE j \in 1..Len(columns) :
        /\ columns[j] \notin DOMAIN row
        /\ \A i \in 1..(j - 1) : columns[i] \in DOMAIN row

\* the strings that are yielded, one per valid cell of the first j declared columns
RECURSIVE StrOfValid(_)
StrOfValid(j) ==
    IF j = 0 THEN <<>>
    ELSE LET c == columns[j] IN
         IF c \in DOMAIN row /\ valid(row[c])
         THEN Append(StrOfValid(j - 1), py_str(row[c]))
         ELSE StrOfValid(j - 1)

\* C5 (as written): no identifier is yielded for a row before its KeyError
C5_Original_NothingYieldedBeforeKeyError ==
    (cls = "map" /\ raised = "KeyError") => out = <<>>

\* C5 (amended): map raises ValueError when no column is declared and KeyError
\* when a declared column is absent from the row; otherwise it yields, in
\* declared order, str(cell) for each declared column whose cell is valid and
\* nothing for an invalid cell. When a column is missing, the identifiers of the
\* valid cells of the columns declared before the first missing one have been
\* yielded when the KeyError is raised.
C5_MapYieldsValidCellsInOrder ==
    cls = "map" =>
        /\ gpc = "raised" =>
              \/ /\ raised = "ValueError" /\ columns = <<>> /\ out = <<>>
              \/ /\ raised = "KeyError" /\ columns # <<>> /\ ~AllPresent
                 /\ out = StrOfValid(FirstAbsent - 1)
        /\ gpc = "done" =>
              /\ raised = "none" /\ columns # <<>> /\ AllPresent
              /\ out = StrOfValid(Len(columns))
              /\ Len(out) + Len(warnings) = Len(columns)
        /\ \A j \in 1..Len(out) : out[j] # nan
        /\ (gpc = "map" /\ columns = <<>>) => out = <<>>
        /\ (gpc = "map" /\ ~AllPresent) => k < FirstAbsent

\* a KeyError raised after an identifier was yielded
C5_Witness ==
    /\ cls = "map" /\ raised = "KeyError"
    /\ Len(columns) = 2
    /\ columns[1] \in DOMAIN row /\ columns[2] \notin DOMAIN row
    /\ row[columns[1]].t = "int"
    /\ out = <<py_str(row[columns[1]])>>


-----------------------------------------------------------------------------
(* transformer.py : cat_format *)

\* a format string is a list of literal characters and replacement fields
Lit(c) == [lit |-> c, field |-> ""]
Fld(f) == [lit |-> "", field |-> f]

FormatStrings ==
    { <<Fld("c1")>>,
      <<Lit("a")>>,
      <<Fld("c1"), Lit("-"), Fld("c2")>>,
      <<Fld("c2"), Fld("c2")>> }

\* row.get(column_name, '')
row_get(r, c) == IF c \in DOMAIN r THEN r[c] ELSE S(<<>>)

\* str.format_map(row): [err |-> TRUE] stands for the KeyError of a field that
\* is no key of the row
RECURSIVE format_map(_, _)
format_map(fmt, r) ==
    IF fmt = <<>> THEN [err |-> FALSE, s |-> <<>>]
    ELSE LET tok  == Head(fmt)
             rest == format_map(Tail(fmt), r)
         IN  IF tok.field = "" THEN [err |-> rest.err, s |-> <<tok.lit>> \o rest.s]
             ELSE IF tok.field \notin DOMAIN r THEN [err |-> TRUE, s |-> <<>>]
             ELSE [err |-> rest.err, s |-> py_str(r[tok.field]) \o rest.s]

InitCatFormat ==
    /\ OntoIdle
    /\ cls = "cat_format"
    /\ columns \in ColumnLists
    /\ separator = <<>>
    /\ format_string \in FormatStrings
    /\ translations = NoTable /\ translations_file = "None"
    /\ translate_from = "None" /\ translate_to = "None" /\ df = NoDf
    /\ attrs \in {{}, {"format_string"}}
    /\ translate = <<>>
    /\ \E r \in Rows : Fresh(r)
    /\ gpc = "cat_format"

\* lines 117-124 find no invalid cell
AllDeclaredValid == \A j \in 1..Len(columns) : valid(row_get(row, columns[j]))

\* lines 129-130
FmtNoFormatString ==
    /\ gpc = "cat_format"
    /\ "format_string" \notin attrs
    /\ Raise("Exception")
    /\ UNCHANGED <<ontoVars, cfgVars, attrs, translate, row, k, out, warnings>>

\* lines 117-124
FmtInvalid ==
    /\ gpc = "cat_format"
    /\ "format_string" \in attrs
    /\ ~AllDeclaredValid
    /\ Raise("Exception")
    /\ UNCHANGED <<ontoVars, cfgVars, attrs, translate, row, k, out, warnings>>

\* line 126 raises KeyError
FmtKeyError ==
    /\ gpc = "cat_format"
    /\ "format_string" \in attrs
    /\ AllDeclaredValid
    /\ format_map(format_string, row).err
    /\ Raise("KeyError")
    /\ UNCHANGED <<ontoVars, cfgVars, attrs, translate, row, k, out, warnings>>

\* FmtYield without the loop of lines 117-124
FmtYield_Unchecked ==
    /\ gpc = "cat_format"
    /\ "format_string" \in attrs
    /\ ~format_map(format_string, row).err
    /\ out' = Append(out, format_map(format_string, row).s)
    /\ gpc' = "yielded"
    /\ UNCHANGED <<ontoVars, cfgVars, attrs, translate, row, k, raised, warnings>>

\* lines 116-127
FmtYield ==
    /\ gpc = "cat_format"
    /\ "format_string" \in attrs
    /\ AllDeclaredValid
    /\ ~format_map(format_string, row).err
    /\ out' = Append(out, format_map(format_string, row).s)
    /\ gpc' = "yielded"
    /\ UNCHANGED <<ontoVars, cfgVars, attrs, translate, row, k, raised, warnings>>

\* the generator returns after its only yield
FmtDone ==
    /\ gpc = "yielded"
    /\ gpc' = "done"
    /\ UNCHANGED <<ontoVars, cfgVars, attrs, translate, row, k, out, raised, warnings>>

NextCatFormat == FmtNoFormatString \/ FmtInvalid \/ FmtKeyError \/ FmtYield \/ FmtDone

SpecCatFormat == InitCatFormat /\ [][NextCatFormat]_vars

(* cat_format : what the claim speaks of *)

SomeDeclaredInvalid ==
    \E j \in 1..Len(columns) : columns[j] \in DOMAIN row /\ ~valid(row[columns[j]])

FieldsOf(fmt) == {fmt[j].field : j \in {i \in 1..Len(fmt) : fmt[i].field # ""}}

\* the format string with each field replaced by the str of the row's cell
RECURSIVE Filled(_)
Filled(fmt) ==
    IF fmt = <<>> THEN <<>>
    ELSE (IF Head(fmt).field = "" THEN <<Head(fmt).lit>> ELSE py_str(row[Head(fmt).field]))
            \o Filled(Tail(fmt))

\* C6 (as written): an Exception before any yield when the format string is
\* undefined or a declared cell is invalid, and one identifier in every other case
C6_Original_OtherwiseOneIdentifier ==
    (cls = "cat_format" /\ gpc \in {"done", "raised"}) =>
        IF "format_string" \notin attrs \/ SomeDeclaredInvalid
        THEN raised = "Exception" /\ out = <<>>
        ELSE gpc = "done" /\ out = <<Filled(format_string)>>

\* C6 (amended): cat_format raises an Exception when no format string is defined
\* or a declared column's cell is invalid, before yielding anything; otherwise,
\* when a field of the format string is no column of the row, format_map raises
\* KeyError, also before anything is yielded; otherwise it yields exactly one
\* identifier, the format string filled from the row.
C6_CatFormatOneIdentifierOrRaise ==
    cls = "cat_format" =>
        /\ gpc \in {"done", "raised", "yielded"} =>
              IF "format_string" \notin attrs \/ SomeDeclaredInvalid
              THEN gpc = "raised" /\ raised = "Exception" /\ out = <<>>
              ELSE IF ~(FieldsOf(format_string) \subseteq DOMAIN row)
              THEN gpc = "raised" /\ raised = "KeyError" /\ out = <<>>
              ELSE /\ gpc \in {"yielded", "done"} /\ raised = "none"
                   /\ out = <<Filled(format_string)>>
        /\ gpc = "cat_format" => out = <<>>

\* one identifier filled from two cells, one of them not a string
C6_Witness ==
    /\ cls = "cat_format" /\ gpc = "done"
    /\ Len(columns) = 2
    /\ format_string = <<Fld("c1"), Lit("-"), Fld("c2")>>
    /\ row["c1"] = I(10) /\ row["c2"] = S(<<"a">>)
    /\ out = << <<"1", "0", "-", "a">> >>


-----------------------------------------------------------------------------
(* transformer.py : translate.__init__ *)

\* bool(x) of a keyword argument that is a string or None
given(x) == x \notin {"None", ""}

\* bool(translations)
given_table(tr) == tr.given /\ DOMAIN tr.map # {}

EmptyTable == [x \in {} |-> x]

\* manual translation tables
Table1 == (S(<<"a">>) :> S(<<",">>))
Table2 == (S(<<"a">>) :> I(10)) @@ (I(1) :> S(<<"a">>))

Translations ==
    {NoTable, [given |-> TRUE, map |-> EmptyTable],
     [given |-> TRUE, map |-> Table1], [given |-> TRUE, map |-> Table2]}

\* translation files hold strings and integers
DfCells == {S(<<"a">>), S(<<>>), I(0), I(1)}

Dfs ==
    UNION {[headers : {H}, rows : SeqsUpTo([H -> DfCells], MaxDfRows)] :
              H \in SUBSET {"f", "t"}}

\* the files used when the transformer is also called
DfsCalled ==
    { [headers |-> {"f", "t"},
       rows |-> << [f |-> S(<<"a">>), t |-> I(1)], [f |-> I(1), t |-> S(<<>>)] >>],
      [headers |-> {"f", "t"}, rows |-> << [f |-> I(0), t |-> I(1)] >>],
      [headers |-> {"f"}, rows |-> << [f |-> I(1)] >>],
      [headers |-> {"t"}, rows |-> << [t |-> I(1)] >>] }

\* base.Transformer.__init__ keeps the keyword arguments passed as attributes
BaseAttrs ==
    {"columns"}
        \cup (IF translations.given THEN {"translations"} ELSE {})
        \cup (IF translations_file # "None" THEN {"translations_file"} ELSE {})
        \cup (IF translate_from # "None" THEN {"translate_from"} ELSE {})
        \cup (IF translate_to # "None" THEN {"translate_to"} ELSE {})

\* lines 234-237, with the keyword arguments drawn from TR, the files from DF,
\* the declared columns from CL and the rows from RW
InitNew(TR, DF, CL, RW) ==
    /\ OntoIdle
    /\ cls = "translate"
    /\ columns \in CL
    /\ separator = <<>> /\ format_string = <<>>
    /\ translations \in TR
    /\ translations_file \in {"None", "", "file"}
    /\ translate_from \in {"None", "", "f"}
    /\ translate_to \in {"None", "", "t"}
    /\ df \in (IF given(translations_file) THEN DF ELSE {NoDf})
    /\ attrs = BaseAttrs
    /\ translate = EmptyTable
    /\ \E r \in RW : Fresh(r)
    /\ gpc = "new"

\* lines 239-240
NewBoth ==
    /\ gpc = "new"
    /\ given_table(translations) /\ given(translations_file)
    /\ Raise("RuntimeError")
    /\ UNCHANGED <<ontoVars, cfgVars, attrs, translate, row, k, out, warnings>>

\* lines 242-244, then line 285
NewManual ==
    /\ gpc = "new"
    /\ given_table(translations) /\ ~given(translations_file)
    /\ translate' = translations.map
    /\ attrs' = attrs \cup {"translate"}
    /\ gpc' = "translate"
    /\ UNCHANGED <<ontoVars, cfgVars, row, k, out, raised, warnings>>

InFileBranch == gpc = "new" /\ ~given_table(translations) /\ given(translations_file)

\* lines 247-248
NewNoFrom ==
    /\ InFileBranch
    /\ ~given(translate_from)
    /\ Raise("ValueError")
    /\ UNCHANGED <<ontoVars, cfgVars, attrs, translate, row, k, out, warnings>>

\* lines 249-250
NewNoTo ==
    /\ InFileBranch
    /\ given(translate_from) /\ ~given(translate_to)
    /\ Raise("ValueError")
    /\ UNCHANGED <<ontoVars, cfgVars, attrs, translate, row, k, out, warnings>>

FileAttrs == {"translations_file", "translate_from", "translate_to", "df"}

\* lines 268-269
NewFromMissing ==
    /\ InFileBranch
    /\ given(translate_from) /\ given(translate_to)
    /\ translate_from \notin df.headers
    /\ attrs' = attrs \cup FileAttrs
    /\ Raise("ValueError")
    /\ UNCHANGED <<ontoVars, cfgVars, translate, row, k, out, warnings>>

\* lines 271-272
NewToMissing ==
    /\ InFileBranch
    /\ given(translate_from) /\ given(translate_to)
    /\ translate_from \in df.headers
    /\ translate_to \notin df.headers
    /\ attrs' = attrs \cup FileAttrs
    /\ Raise("ValueError")
    /\ UNCHANGED <<ontoVars, cfgVars, translate, row, k, out, warnings>>

\* lines 274-279
RECURSIVE build_table(_, _, _)
build_table(rows, from, to) ==
    IF rows = <<>> THEN EmptyTable
    ELSE LET prev == build_table(SubSeq(rows, 1, Len(rows) - 1), from, to)
             r    == rows[Len(rows)]
         IN  IF py_bool(r[from]) /\ py_bool(r[to])
             THEN [x \in DOMAIN prev \cup {r[from]} |-> IF x = r[from] THEN r[to] ELSE prev[x]]
             ELSE prev

HeadersFound ==
    /\ InFileBranch
    /\ given(translate_from) /\ given(translate_to)
    /\ translate_from \in df.headers
    /\ translate_to \in df.headers

\* NewFileTable without the test of line 285
NewFileTable_Unchecked ==
    /\ HeadersFound
    /\ translate' = build_table(df.rows, translate_from, translate_to)
    /\ attrs' = attrs \cup FileAttrs \cup {"translate"}
    /\ gpc' = "translate"
    /\ UNCHANGED <<ontoVars, cfgVars, row, k, out, raised, warnings>>

\* lines 252-279, then line 285 finds a table
NewFileTable ==
    /\ HeadersFound
    /\ DOMAIN build_table(df.rows, translate_from, translate_to) # {}
    /\ translate' = build_table(df.rows, translate_from, translate_to)
    /\ attrs' = attrs \cup FileAttrs \cup {"translate"}
    /\ gpc' = "translate"
    /\ UNCHANGED <<ontoVars, cfgVars, row, k, out, raised, warnings>>

\* lines 252-279, then lines 285-286
NewFileEmpty ==
    /\ HeadersFound
    /\ DOMAIN build_table(df.rows, translate_from, translate_to) = {}
    /\ translate' = build_table(df.rows, translate_from, translate_to)
    /\ attrs' = attrs \cup FileAttrs \cup {"translate"}
    /\ Raise("ValueError")
    /\ UNCHANGED <<ontoVars, cfgVars, row, k, out, warnings>>

\* lines 281-282
NewNeither ==
    /\ gpc = "new"
    /\ ~given_table(translations) /\ ~given(translations_file)
    /\ Raise("RuntimeError")
    /\ UNCHANGED <<ontoVars, cfgVars, attrs, translate, row, k, out, warnings>>

InitTranslateNew == InitNew(Translations, Dfs, {<<"c1">>}, {<<>>})

NextTranslateNew ==
    \/ NewBoth \/ NewManual \/ NewNoFrom \/ NewNoTo \/ NewFromMissing \/ NewToMissing
    \/ NewFileTable \/ NewFileEmpty \/ NewNeither

SpecTranslateNew == InitTranslateNew /\ [][NextTranslateNew]_vars

(* translate.__init__ : what the claim speaks of *)

\* a row of the file from which line 276 takes a translation
Usable(r) == py_bool(r[translate_from]) /\ py_bool(r[translate_to])

\* C3: the constructor raises RuntimeError when both `translations` and
\* `translations_file` are given (are true values) and when neither is; with a
\* file only, ValueError when `translate_from` or `translate_to` is not given,
\* when one of the two columns is no header of the file, and when the table read
\* from the file is empty. Whenever it raises nothing, self.translate is a
\* non-empty mapping: the given translations, or one entry per source value of
\* the usable rows of the file, the last such row deciding.
C3_ConstructorYieldsNonEmptyTable ==
    (cls = "translate" /\ gpc \in {"translate", "raised"} /\ k = 0 /\ out = <<>>) =>
        LET T == given_table(translations)
            F == given(translations_file)
            named   == given(translate_from) /\ given(translate_to)
            headers == translate_from \in df.headers /\ translate_to \in df.headers
            usable  == {j \in 1..Len(df.rows) : Usable(df.rows[j])}
        IN  /\ (T /\ F) => raised = "RuntimeError"
            /\ (~T /\ ~F) => raised = "RuntimeError"
            /\ (~T /\ F /\ ~named) => raised = "ValueError"
            /\ (~T /\ F /\ named /\ ~headers) => raised = "ValueError"
            /\ (~T /\ F /\ named /\ headers /\ usable = {}) => raised = "ValueError"
            /\ (T /\ ~F) => (raised = "none" /\ translate = translations.map)
            /\ (~T /\ F /\ named /\ headers /\ usable # {}) =>
                  /\ raised = "none"
                  /\ DOMAIN translate = {df.rows[j][translate_from] : j \in usable}
                  /\ \A j \in usable :
                        (\A i \in usable : i > j =>
                            df.rows[i][translate_from] # df.rows[j][translate_from])
                        => translate[df.rows[j][translate_from]] = df.rows[j][translate_to]
            /\ raised = "none" => (gpc = "translate" /\ DOMAIN translate # {})
            /\ raised \in {"none", "RuntimeError", "ValueError"}

\* a table read from a file of which one row was not usable
C3_Witness ==
    /\ cls = "translate" /\ gpc = "translate" /\ raised = "none"
    /\ given(translations_file) /\ ~translations.given
    /\ Len(df.rows) = 2
    /\ Cardinality(DOMAIN translate) = 1
    /\ ~Usable(df.rows[1])

-----------------------------------------------------------------------------
(* transformer.py : translate.__call__ *)

InitTranslate ==
    InitNew({NoTable, [given |-> TRUE, map |-> Table2]}, DfsCalled, ColumnLists, Rows)

\* lines 302-303
TranslateNoColumns ==
    /\ gpc = "translate"
    /\ columns = <<>>
    /\ Raise("ValueError")
    /\ UNCHANGED <<ontoVars, cfgVars, attrs, translate, row, k, out, warnings>>

InTranslate == gpc = "translate" /\ columns # <<>> /\ k < Len(columns)

\* lines 306-309
TranslateKeyError ==
    /\ InTranslate
    /\ columns[k + 1] \notin DOMAIN row
    /\ Raise("KeyError")
    /\ UNCHANGED <<ontoVars, cfgVars, attrs, translate, row, k, out, warnings>>

\* lines 310-312
TranslateCell ==
    /\ InTranslate
    /\ columns[k + 1] \in DOMAIN row
    /\ row[columns[k + 1]] \in DOMAIN translate
    /\ row' = [row EXCEPT ![columns[k + 1]] = translate[row[columns[k + 1]]]]
    /\ k' = k + 1
    /\ UNCHANGED <<ontoVars, cfgVars, attrs, translate, out, raised, gpc, warnings>>

\* the message of line 314 reads self.translate_from and self.translate_to
MessageAttrs == {"translate_from", "translate_to"}

\* lines 313-314, the message can be built
TranslateWarn ==
    /\ InTranslate
    /\ columns[k + 1] \in DOMAIN row
    /\ row[columns[k + 1]] \notin DOMAIN translate
    /\ MessageAttrs \subseteq attrs
    /\ warnings' = Append(warnings, columns[k + 1])
    /\ k' = k + 1
    /\ UNCHANGED <<ontoVars, cfgVars, attrs, translate, row, out, raised, gpc>>

\* lines 313-314, an attribute the message reads is not defined
TranslateAttributeError ==
    /\ InTranslate
    /\ columns[k + 1] \in DOMAIN row
    /\ row[columns[k + 1]] \notin DOMAIN translate
    /\ ~(MessageAttrs \subseteq attrs)
    /\ Raise("AttributeError")
    /\ UNCHANGED <<ontoVars, cfgVars, attrs, translate, row, k, out, warnings>>

\* lines 316-317: the loop is over, self.map(row, i) takes over
TranslateToMap ==
    /\ gpc = "translate"
    /\ columns # <<>>
    /\ k = Len(columns)
    /\ gpc' = "map"
    /\ k' = 0
    /\ UNCHANGED <<ontoVars, cfgVars, attrs, translate, row, out, raised, warnings>>

\* self.map has the columns of the translate transformer, which are declared
\* and present once lines 302-309 are passed: of map only MapYield, MapInvalid
\* and MapDone can happen
NextTranslate ==
    \/ NewBoth \/ NewManual \/ NewNoFrom \/ NewNoTo \/ NewFromMissing \/ NewToMissing
    \/ NewFileTable \/ NewFileEmpty \/ NewNeither
    \/ TranslateNoColumns \/ TranslateKeyError \/ TranslateCell \/ TranslateWarn
    \/ TranslateAttributeError \/ TranslateToMap
    \/ MapYield \/ MapInvalid \/ MapDone

SpecTranslate == InitTranslate /\ [][NextTranslate]_vars

(* translate.__call__ : what the claim speaks of *)

Called == cls = "translate" /\ "translate" \in attrs /\ DOMAIN translate # {}

\* the row with each declared cell that is a key of the table translated
TranslatedRow ==
    [c \in DOMAIN row0 |->
        IF (\E j \in 1..Len(columns) : columns[j] = c) /\ row0[c] \in DOMAIN translate
        THEN translate[row0[c]]
        ELSE row0[c]]

\* C4: a call on a row that has every declared column translates the declared
\* cells that are keys of the table, leaves the other cells as they are, raises
\* nothing for an untranslatable cell, and yields what map yields on the
\* resulting row, whether the table came from `translations` or from a file.
C4_TranslateThenMap ==
    (Called /\ columns # <<>> /\ AllPresent /\ gpc \in {"done", "raised"}) =>
        /\ raised = "none"
        /\ row = TranslatedRow
        /\ out = StrOfValid(Len(columns))

====
